---- MODULE Spec2Model ----
(***************************************************************************)
(* Model of Hyprmonitor's session object (src/src/app.rs): the monitor     *)
(* catalog built from the compositor's JSON answer, the per-monitor        *)
(* MonitorConfig, the two list cursors and the key handler that mutates    *)
(* them.                                                                   *)
(*                                                                         *)
(* Representation choices                                                  *)
(*  - a Rust String is a sequence of one-character strings, so that        *)
(*    split_once('@'), trim_end_matches("Hz"), split('x'), parse() and the *)
(*    BTreeMap's byte order are computed, not assumed;                     *)
(*  - an f64 refresh rate is an integer number of millihertz (60.003 Hz is *)
(*    60003); the inputs carry at most three decimals and no value lies    *)
(*    exactly on a comparison threshold, so the exact arithmetic here and  *)
(*    the f64 arithmetic of the code agree on them; the two infinities,    *)
(*    which parse::<f64>() reads from "inf" and "-inf", are Infinity and    *)
(*    its negative, and a difference of two equal infinities, a NaN, is     *)
(*    below no tolerance;                                                  *)
(*  - a raw f64 scale is [whole, milli] = whole + milli/1000;              *)
(*  - i32 values keep their width: I32Max is the largest, and the sum in   *)
(*    adjust_scale is tested for overflow before it is formed.             *)
(***************************************************************************)
EXTENDS Integers, Sequences, FiniteSets, TLC

\* ------------------------------------------------------------------------
\* Bounds of the exploration
\* ------------------------------------------------------------------------

\* adjust_scale is explored upwards while the scale is below ScaleCap and
\* downwards while it is at most one step above it ...
ScaleCap == 75

\* ... or within HighWindow of the largest i32.
HighWindow == 47

\* number of consecutive value-change calls remembered in trail
MaxTrail == 4

\* largest count of repeated calls applied to a reachable config
MaxCount == 4

\* largest list length and cursor cycle_selection is evaluated on
MaxList == 12

\* ------------------------------------------------------------------------
\* Program constants
\* ------------------------------------------------------------------------

SCALE_STEP == 25

MIN_SCALE == 50

OPTION_COUNT == 11

APPLY_OPTION_IDX == 3

SET_MAIN_IDX == 4

EXTEND_LEFT_IDX == 5

EXTEND_RIGHT_IDX == 6

MIRROR_IDX == 7

BLACK_SCREEN_IDX == 8

SAVE_OPTION_IDX == 9

DISABLE_OPTION_IDX == 10

\* largest value of MonitorConfig.scale (i32)
I32Max == 2147483647

\* Option<usize>::None of a ListState
None == -1

\* ------------------------------------------------------------------------
\* Strings
\* ------------------------------------------------------------------------

\* the characters of the inputs, in ascending byte order
CharOrder ==
  << "+", "-", ".", "0", "1", "2", "3", "4", "5", "6", "7", "8", "9",
     "@", "H", "a", "b", "c", "d", "e", "f", "g", "i", "n", "p", "q", "r",
     "s", "t", "x", "z" >>

Ord(c) == CHOOSE i \in 1..Len(CharOrder) : CharOrder[i] = c

DigitChars == << "0", "1", "2", "3", "4", "5", "6", "7", "8", "9" >>

Digits == {DigitChars[i] : i \in 1..10}

DigitVal(c) == (CHOOSE i \in 1..10 : DigitChars[i] = c) - 1

\* Ord for str: byte-wise lexicographic, a proper prefix sorts first
RECURSIVE StrLess(_, _)
StrLess(a, b) ==
  IF b = << >> THEN FALSE
  ELSE IF a = << >> THEN TRUE
  ELSE IF Head(a) # Head(b) THEN Ord(Head(a)) < Ord(Head(b))
  ELSE StrLess(Tail(a), Tail(b))

\* index of the first occurrence of c in s, 0 when absent
RECURSIVE IndexOf(_, _, _)
IndexOf(s, c, from) ==
  IF from > Len(s) THEN 0
  ELSE IF s[from] = c THEN from
  ELSE IndexOf(s, c, from + 1)

\* the two sides of the separator at index i, none when i = 0
SplitAt(s, i) ==
  IF i = 0 THEN [ok |-> FALSE, left |-> << >>, right |-> << >>]
  ELSE [ok |-> TRUE, left |-> SubSeq(s, 1, i - 1), right |-> SubSeq(s, i + 1, Len(s))]

\* str::split_once(ch): [ok, left, right]
SplitOnce(s, c) == SplitAt(s, IndexOf(s, c, 1))

RECURSIVE Split(_, _)

\* the pieces of s, whose first separator is at index i
SplitFrom(s, c, i) ==
  IF i = 0 THEN << s >>
  ELSE << SubSeq(s, 1, i - 1) >> \o Split(SubSeq(s, i + 1, Len(s)), c)

\* str::split(ch): the pieces between separators, empty pieces included
Split(s, c) == SplitFrom(s, c, IndexOf(s, c, 1))

\* str::trim_end_matches("Hz"): strips the suffix repeatedly
RECURSIVE TrimEndHz(_)
TrimEndHz(s) ==
  IF Len(s) >= 2 /\ s[Len(s) - 1] = "H" /\ s[Len(s)] = "z"
  THEN TrimEndHz(SubSeq(s, 1, Len(s) - 2))
  ELSE s

AllDigits(s) == \A i \in 1..Len(s) : s[i] \in Digits

RECURSIVE DigitsVal(_)
DigitsVal(s) ==
  IF s = << >> THEN 0
  ELSE DigitsVal(SubSeq(s, 1, Len(s) - 1)) * 10 + DigitVal(s[Len(s)])

\* the i-th decimal of a digit string, 0 beyond its end
Decimal(s, i) == IF i <= Len(s) THEN DigitVal(s[i]) ELSE 0

\* the first three decimals of a digit string, as thousandths
FracMilli(s) == Decimal(s, 1) * 100 + Decimal(s, 2) * 10 + Decimal(s, 3)

StripSign(s) ==
  IF s # << >> /\ Head(s) \in {"+", "-"} THEN Tail(s) ELSE s

IsNegative(s) == s # << >> /\ Head(s) = "-"

Signed(neg, mag) == IF neg THEN 0 - mag ELSE mag

\* the value of integer part ip and fraction part fp, in thousandths
DecimalValue(ip, fp, neg) ==
  IF AllDigits(ip) /\ AllDigits(fp) /\ Len(ip) + Len(fp) > 0
  THEN [ok |-> TRUE, val |-> Signed(neg, DigitsVal(ip) * 1000 + FracMilli(fp))]
  ELSE [ok |-> FALSE, val |-> 0]

\* the value of an unsigned decimal whose point is at index dot (0: none)
DecimalAt(body, dot, neg) ==
  IF dot = 0 THEN DecimalValue(body, << >>, neg)
  ELSE DecimalValue(SubSeq(body, 1, dot - 1), SubSeq(body, dot + 1, Len(body)), neg)

\* f64::INFINITY, in thousandths: above every rate of the inputs
Infinity == 2000000000

IsInfinite(x) == x = Infinity \/ x = 0 - Infinity

\* str::parse::<f64>() on the forms [+-]digits[.digits] and [+-]inf, in
\* thousandths: [ok, val].  (It also reads "infinity", "nan", exponents and
\* upper case, which no input carries.)
ParseF64(s) ==
  IF StripSign(s) = << "i", "n", "f" >>
  THEN [ok |-> TRUE, val |-> Signed(IsNegative(s), Infinity)]
  ELSE DecimalAt(StripSign(s), IndexOf(StripSign(s), ".", 1), IsNegative(s))

IntegerValue(body, neg) ==
  IF body # << >> /\ AllDigits(body)
  THEN [ok |-> TRUE, val |-> Signed(neg, DigitsVal(body))]
  ELSE [ok |-> FALSE, val |-> 0]

\* str::parse::<i64>(): [+-]digits with at least one digit
ParseI64(s) == IntegerValue(StripSign(s), IsNegative(s))

Abs(x) == IF x < 0 THEN 0 - x ELSE x

\* ------------------------------------------------------------------------
\* serde_json values: [t |-> "null"], [t |-> "bool", v], [t |-> "int", v],
\* [t |-> "float", whole, milli], [t |-> "str", v], [t |-> "array", v].
\* A field that is absent from a record reads as null.
\* ------------------------------------------------------------------------

JNull == [t |-> "null"]

JBool(b) == [t |-> "bool", v |-> b]

JInt(n) == [t |-> "int", v |-> n]

JFloat(w, m) == [t |-> "float", whole |-> w, milli |-> m]

JStr(s) == [t |-> "str", v |-> s]

JArray(a) == [t |-> "array", v |-> a]

\* Value::as_f64().unwrap_or(whole + milli / 1000): Some for every number
AsF64Or(j, whole, milli) ==
  IF j.t = "int" THEN [whole |-> j.v, milli |-> 0]
  ELSE IF j.t = "float" THEN [whole |-> j.whole, milli |-> j.milli]
  ELSE [whole |-> whole, milli |-> milli]

\* Value::as_i64().unwrap_or(default): Some only for an integer number
AsI64Or(j, default) == IF j.t = "int" THEN j.v ELSE default

\* Value::as_bool().unwrap_or(default)
AsBoolOr(j, default) == IF j.t = "bool" THEN j.v ELSE default

\* ------------------------------------------------------------------------
\* BTreeMap<String, Vec<f64>>: a sequence of [key, rates] in ascending key
\* order
\* ------------------------------------------------------------------------

\* BTreeMap::keys
Keys(modes) == [i \in 1..Len(modes) |-> modes[i].key]

HasKey(modes, k) == \E i \in 1..Len(modes) : modes[i].key = k

\* BTreeMap::get, for a key that is present
Get(modes, k) == modes[CHOOSE i \in 1..Len(modes) : modes[i].key = k].rates

\* a new entry after the first `below` entries
InsertAfter(modes, below, entry) ==
  SubSeq(modes, 1, below) \o << entry >> \o SubSeq(modes, below + 1, Len(modes))

\* modes.entry(res).or_insert_with(Vec::new).push(rate)
EntryPush(modes, k, rate) ==
  IF HasKey(modes, k)
  THEN [i \in 1..Len(modes) |->
          IF modes[i].key = k
          THEN [key |-> k, rates |-> Append(modes[i].rates, rate)]
          ELSE modes[i]]
  ELSE InsertAfter(modes,
                   Cardinality({i \in 1..Len(modes) : StrLess(modes[i].key, k)}),
                   [key |-> k, rates |-> << rate >>])

\* x placed after the elements of a descending sequence that are >= x
InsertDesc(sorted, x) ==
  InsertAfter(sorted, Cardinality({i \in 1..Len(sorted) : sorted[i] >= x}), x)

\* rates.sort_by(|a, b| b.partial_cmp(a)): stable, descending
RECURSIVE SortDesc(_)
SortDesc(rates) ==
  IF Len(rates) <= 1 THEN rates
  ELSE InsertDesc(SortDesc(SubSeq(rates, 1, Len(rates) - 1)), rates[Len(rates)])

\* the tolerance of dedup_by, 0.01 Hz in thousandths
DedupTolerance == 10

\* (a - b).abs() < tolerance: with an infinite operand the difference is
\* infinite or NaN and the comparison is false
WithinTolerance(a, b, tolerance) ==
  ~IsInfinite(a) /\ ~IsInfinite(b) /\ Abs(a - b) < tolerance

\* the next element x is dropped when it is within the tolerance of the last
\* element kept
DedupPush(kept, x) ==
  IF WithinTolerance(x, kept[Len(kept)], DedupTolerance) THEN kept
  ELSE Append(kept, x)

\* rates.dedup_by(|a, b| (*a - *b).abs() < 0.01)
RECURSIVE Dedup(_)
Dedup(rates) ==
  IF Len(rates) <= 1 THEN rates
  ELSE DedupPush(Dedup(SubSeq(rates, 1, Len(rates) - 1)), rates[Len(rates)])

\* if let Ok(rate) replaced by unwrap_or(0.0): a rate that did not parse is
\* pushed as 0.0
AddRate_or_zero(modes, res, rate) ==
  IF rate.ok THEN EntryPush(modes, res, rate.val) ELSE EntryPush(modes, res, 0)

\* the push of a parsed rate, nothing when the rate did not parse
AddRate(modes, res, rate) ==
  IF rate.ok THEN EntryPush(modes, res, rate.val) ELSE modes

\* the mode string split at '@', nothing when it has no '@'
AddSplit(modes, sp) ==
  IF sp.ok THEN AddRate(modes, sp.left, ParseF64(TrimEndHz(sp.right))) ELSE modes

\* one iteration of the loop over availableModes
AddModeString(modes, j) ==
  IF j.t = "str" THEN AddSplit(modes, SplitOnce(j.v, "@")) ELSE modes

RECURSIVE CollectModes(_)
CollectModes(arr) ==
  IF arr = << >> THEN << >>
  ELSE AddModeString(CollectModes(SubSeq(arr, 1, Len(arr) - 1)), arr[Len(arr)])

\* the second loop of parse_modes
SortAndDedup(raw) ==
  [i \in 1..Len(raw) |-> [key |-> raw[i].key, rates |-> Dedup(SortDesc(raw[i].rates))]]

parse_modes(data) ==
  SortAndDedup(IF data.availableModes.t = "array"
               THEN CollectModes(data.availableModes.v) ELSE << >>)

\* the largest whole part w for which w * 100 is an i32
ScaleWholeMax == 21474836

\* f64::max(0.1)
MaxTenth(x) ==
  IF x.whole < 0 \/ (x.whole = 0 /\ x.milli < 100)
  THEN [whole |-> 0, milli |-> 100] ELSE x

\* whole * 100 + cents as i32: the cast saturates
SaturatingCents(whole, cents) ==
  IF whole > ScaleWholeMax THEN I32Max
  ELSE IF whole = ScaleWholeMax /\ cents >= I32Max - ScaleWholeMax * 100 THEN I32Max
  ELSE whole * 100 + cents

\* (x * 100.0).round() as i32: round half away from zero
RoundToI32(x) == SaturatingCents(x.whole, (x.milli + 5) \div 10)

\* parse_scale without the .max(0.1)
parse_scale_no_floor(data) == RoundToI32(AsF64Or(data.scale, 1, 0))

parse_scale(data) == RoundToI32(MaxTenth(AsF64Or(data.scale, 1, 0)))

\* i64::MAX, the distance of a label that is not two integers
DistMax == [max |-> TRUE, d |-> 0]

DistLess(a, b) ==
  IF a.max THEN FALSE ELSE IF b.max THEN TRUE ELSE a.d < b.d

Square(x) == x * x

\* res.split('x').filter_map(|s| s.parse().ok()).collect()
ParsedParts(pieces) ==
  SelectSeq([i \in 1..Len(pieces) |-> ParseI64(pieces[i])], LAMBDA p : p.ok)

DistanceOf(parts, target_w, target_h) ==
  IF Len(parts) = 2
  THEN [max |-> FALSE,
        d   |-> Square(parts[1].val - target_w) + Square(parts[2].val - target_h)]
  ELSE DistMax

resolution_distance(res, target_w, target_h) ==
  DistanceOf(ParsedParts(Split(res, "x")), target_w, target_h)

\* min_by_key returning the last of the minimal elements
MinByKey_last(dists) ==
  CHOOSE i \in 1..Len(dists) :
    /\ \A k \in 1..Len(dists) : ~DistLess(dists[k], dists[i])
    /\ \A k \in (i + 1)..Len(dists) : DistLess(dists[i], dists[k])

\* min_by_key: the index (1-based) of the first of the minimal elements
MinByKey(dists) ==
  CHOOSE i \in 1..Len(dists) :
    /\ \A k \in 1..Len(dists) : ~DistLess(dists[k], dists[i])
    /\ \A k \in 1..(i - 1) : DistLess(dists[i], dists[k])

\* the smallest member of hits less one, 0 when there is none
FirstOrZero(hits) ==
  IF hits = {} THEN 0 ELSE (CHOOSE k \in hits : \A k2 \in hits : k <= k2) - 1

\* the tolerance of the refresh-rate match, 0.1 Hz in thousandths
RateTolerance == 100

\* position replaced by rposition: the last matching rate
PositionOr0_last(rates, current_rate) ==
  IF \A k \in 1..Len(rates) : Abs(rates[k] - current_rate) >= RateTolerance
  THEN 0
  ELSE (CHOOSE k \in 1..Len(rates) :
          /\ Abs(rates[k] - current_rate) < RateTolerance
          /\ \A k2 \in (k + 1)..Len(rates) :
               Abs(rates[k2] - current_rate) >= RateTolerance) - 1

\* rates.iter().position(|&rate| (rate - current_rate).abs() < 0.1)
\*   .unwrap_or(0)
PositionOr0(rates, current_rate) ==
  FirstOrZero({k \in 1..Len(rates) : Abs(rates[k] - current_rate) < RateTolerance})

\* (res_idx, refresh_idx) once the resolution is chosen
ModeAt(modes, best, current_rate) ==
  << best - 1, PositionOr0(modes[best].rates, current_rate) >>

\* whole + milli / 1000 in thousandths
Thousandths(x) == x.whole * 1000 + x.milli

BestMode(modes, current_w, current_h, current_rate) ==
  ModeAt(modes,
         MinByKey([i \in 1..Len(modes) |->
                     resolution_distance(modes[i].key, current_w, current_h)]),
         current_rate)

\* find_current_mode that looks for the best match on an inactive monitor too
find_current_mode_ignores_active(data, modes, active) ==
  IF modes = << >> THEN << 0, 0 >>
  ELSE BestMode(modes, AsI64Or(data.width, 0), AsI64Or(data.height, 0),
                Thousandths(AsF64Or(data.refreshRate, 60, 0)))

\* (res_idx, refresh_idx), both 0-based
find_current_mode(data, modes, active) ==
  IF ~active \/ modes = << >> THEN << 0, 0 >>
  ELSE BestMode(modes, AsI64Or(data.width, 0), AsI64Or(data.height, 0),
                Thousandths(AsF64Or(data.refreshRate, 60, 0)))

\* resolutions.get(res_idx).cloned().unwrap_or_default()
KeyAt(modes, idx) == IF idx < Len(modes) THEN modes[idx + 1].key ELSE << >>

\* rates.get(refresh_idx).copied(), 60.0 when there is none
RateIn(rates, idx) == IF idx < Len(rates) THEN rates[idx + 1] ELSE 60000

\* modes.get(&resolution).and_then(|rates| rates.get(refresh_idx).copied())
\*   .unwrap_or(60.0)
RateAt(modes, resolution, idx) ==
  IF HasKey(modes, resolution) THEN RateIn(Get(modes, resolution), idx) ELSE 60000

\* the pair parse_single_monitor returns
Pair(name, modes, active, scale, idx, resolution) ==
  [some    |-> TRUE,
   monitor |-> [name |-> name, active |-> active, modes |-> modes],
   config  |-> [resolution |-> resolution,
                refresh_rate |-> RateAt(modes, resolution, idx[2]),
                scale |-> scale,
                resolution_index |-> idx[1],
                refresh_rate_index |-> idx[2],
                dpms_on |-> TRUE]]

PairAt(name, modes, active, scale, idx) ==
  Pair(name, modes, active, scale, idx, KeyAt(modes, idx[1]))

PairOf(data, modes, active) ==
  PairAt(data.name.v, modes, active, parse_scale(data),
         find_current_mode(data, modes, active))

\* parse_single_monitor that reads a missing disabled field as false
parse_single_monitor_absent_is_enabled(data) ==
  IF data.name.t # "str" \/ data.name.v = << >>
  THEN [some |-> FALSE]
  ELSE PairOf(data, parse_modes(data), ~AsBoolOr(data.disabled, FALSE))

\* parse_single_monitor without the is_empty test of the name
parse_single_monitor_keeps_empty_name(data) ==
  IF data.name.t # "str"
  THEN [some |-> FALSE]
  ELSE PairOf(data, parse_modes(data), ~AsBoolOr(data.disabled, TRUE))

\* Option<(Monitor, MonitorConfig)>: [some, monitor, config]
parse_single_monitor(data) ==
  IF data.name.t # "str" \/ data.name.v = << >>
  THEN [some |-> FALSE]
  ELSE PairOf(data, parse_modes(data), ~AsBoolOr(data.disabled, TRUE))

\* filter_map keeps the pairs that are Some
AppendSome(pairs, p) == IF p.some THEN Append(pairs, p) ELSE pairs

\* the pairs of the records that have a name, in input order
RECURSIVE parse_monitors(_)
parse_monitors(monitors_data) ==
  IF monitors_data = << >> THEN << >>
  ELSE AppendSome(parse_monitors(SubSeq(monitors_data, 1, Len(monitors_data) - 1)),
                  parse_single_monitor(monitors_data[Len(monitors_data)]))

\* init_list_state without `if count > 0`: the first row is always selected
init_list_state_always_selects(count) == 0

\* ListState::default() with select(Some(0)) when count > 0
init_list_state(count) == IF count > 0 THEN 0 ELSE None

\* ------------------------------------------------------------------------
\* The answers of `hyprctl monitors all -j` the session is started on
\* ------------------------------------------------------------------------

R1280x720 == << "1", "2", "8", "0", "x", "7", "2", "0" >>

R1920x1080 == << "1", "9", "2", "0", "x", "1", "0", "8", "0" >>

R640x480 == << "6", "4", "0", "x", "4", "8", "0" >>

\* "<res>@<rate>Hz"
ModeString(res, rate) == JStr(res \o << "@" >> \o rate \o << "H", "z" >>)

\* an answer's record; an absent field is JNull
Record(name, disabled, scale, width, height, refreshRate, availableModes) ==
  [name |-> name, disabled |-> disabled, scale |-> scale, width |-> width,
   height |-> height, refreshRate |-> refreshRate,
   availableModes |-> availableModes]

\* active, three resolutions with 1, 2 and 3 rates, one near-duplicate rate
\* and one malformed mode string; currently 1920x1080 at 30 Hz; raw scale
\* 0.254
RecMain ==
  Record(JStr(<< "a" >>), JBool(FALSE), JFloat(0, 254), JInt(1920), JInt(1080),
         JFloat(30, 0),
         JArray(<< ModeString(R640x480, << "5", "9", ".", "9", "4" >>),
                   ModeString(R1920x1080, << "5", "9", ".", "9", "9", "8" >>),
                   ModeString(R1920x1080, << "3", "0", ".", "0", "0", "0" >>),
                   JStr(<< "g", "a", "r", "b", "a", "g", "e" >>),
                   ModeString(R640x480, << "7", "5" >>),
                   ModeString(R1280x720, << "6", "0", ".", "0", "0" >>),
                   ModeString(R1920x1080, << "6", "0", ".", "0", "0", "3" >>),
                   ModeString(R640x480, << "6", "0" >>) >>))

\* no disabled field, raw scale 0; reports 640x480 at 60 Hz
RecOff ==
  Record(JStr(<< "e" >>), JNull, JInt(0), JInt(640), JInt(480), JInt(60),
         JArray(<< ModeString(R640x480, << "7", "5" >>),
                   ModeString(R640x480, << "6", "0" >>),
                   ModeString(R1920x1080, << "6", "0" >>) >>))

\* active, no availableModes and no scale field
RecEmpty ==
  Record(JStr(<< "g" >>), JBool(FALSE), JNull, JNull, JNull, JNull, JNull)

\* active, raw scale 30000000
RecHuge ==
  Record(JStr(<< "r" >>), JBool(FALSE), JInt(30000000), JInt(1280), JInt(720),
         JInt(60),
         JArray(<< ModeString(R1280x720, << "6", "0" >>) >>))

\* active, raw scale 21474836 (2147483600 after conversion)
RecNear ==
  Record(JStr(<< "z" >>), JBool(FALSE), JInt(21474836), JNull, JNull, JNull,
         JArray(<< ModeString(R640x480, << "6", "0" >>) >>))

\* active, raw scale -0.5, two resolutions
RecNeg ==
  Record(JStr(<< "x" >>), JBool(FALSE), JFloat(-1, 500), JInt(640), JInt(480), JNull,
         JArray(<< ModeString(R640x480, << "6", "0" >>),
                   ModeString(R1280x720, << "6", "0" >>) >>))

\* disabled, reports 640x480 at 50 Hz; 640x480 is the second key of its
\* catalog, and the first key lists its lower rate first
RecDisabled ==
  Record(JStr(<< "b" >>), JBool(TRUE), JInt(1), JInt(640), JInt(480), JInt(50),
         JArray(<< ModeString(R640x480, << "6", "0" >>),
                   ModeString(R1280x720, << "5", "0" >>),
                   ModeString(R1280x720, << "6", "0" >>) >>))

\* active, reports 1600x900, which is as far from 1280x720 as from
\* 1920x1080; the catalog lists 1920x1080 first
RecTie ==
  Record(JStr(<< "H" >>), JBool(FALSE), JFloat(0, 500), JInt(1600), JInt(900),
         JInt(60),
         JArray(<< ModeString(R1920x1080, << "6", "0" >>),
                   ModeString(R1280x720, << "6", "0" >>) >>))

\* active, reports 1920x1080 at 50 Hz.  Its labels: 1280x720, 1920x1080
\* with a trailing x, and 1x2x3; its other strings have a rate that is not
\* a number, an empty rate, and no '@'
RecOdd ==
  Record(JStr(<< "d" >>), JBool(FALSE), JInt(2), JInt(1920), JInt(1080),
         JInt(50),
         JArray(<< ModeString(R1280x720, << "6", "0" >>),
                   ModeString(R640x480, << "b" >>),
                   ModeString(R1920x1080 \o << "x" >>, << "6", "0" >>),
                   ModeString(R1280x720, << >>),
                   ModeString(<< "1", "x", "2", "x", "3" >>, << "6", "0" >>),
                   JStr(<< "b", "a", "d" >>),
                   ModeString(R1280x720, << "7", "5" >>) >>))

\* active, reports 1280x720 at 60.01 Hz, which is within 0.1 Hz of the
\* second and of the third of its rates 75, 60.05 and 60, and nearest to
\* the third
RecRates ==
  Record(JStr(<< "c" >>), JBool(FALSE), JInt(2), JInt(1280), JInt(720),
         JFloat(60, 10),
         JArray(<< ModeString(R1280x720, << "6", "0", ".", "0", "0" >>),
                   ModeString(R1280x720, << "7", "5" >>),
                   ModeString(R1280x720, << "6", "0", ".", "0", "5" >>) >>))

\* active, reports 1280x720 at 50 Hz, which is within 0.1 Hz of none of its
\* rates 75 and 60
RecStale ==
  Record(JStr(<< "t" >>), JBool(FALSE), JInt(2), JInt(1280), JInt(720),
         JInt(50),
         JArray(<< ModeString(R1280x720, << "6", "0" >>),
                   ModeString(R1280x720, << "7", "5" >>) >>))

\* active, lists the rate inf twice
RecInf ==
  Record(JStr(<< "i" >>), JBool(FALSE), JInt(2), JInt(1280), JInt(720),
         JInt(60),
         JArray(<< ModeString(R1280x720, << "i", "n", "f" >>),
                   ModeString(R1280x720, << "6", "0" >>),
                   ModeString(R1280x720, << "i", "n", "f" >>) >>))

\* the three monitors of one answer: active, disabled and active, each with
\* one mode and a scale that differs from the others'
RecLeft ==
  Record(JStr(<< "q" >>), JBool(FALSE), JInt(2), JInt(1280), JInt(720),
         JInt(60),
         JArray(<< ModeString(R1280x720, << "6", "0" >>) >>))

RecLid ==
  Record(JStr(<< "p" >>), JBool(TRUE), JFloat(1, 500), JInt(640), JInt(480),
         JInt(60),
         JArray(<< ModeString(R640x480, << "6", "0" >>) >>))

RecRight ==
  Record(JStr(<< "s" >>), JBool(FALSE), JInt(3), JInt(1920), JInt(1080),
         JInt(60),
         JArray(<< ModeString(R1920x1080, << "6", "0" >>) >>))

RecNoName ==
  Record(JNull, JBool(FALSE), JFloat(1, 256), JInt(640), JInt(480), JInt(60),
         JArray(<< ModeString(R640x480, << "6", "0" >>) >>))

RecEmptyName ==
  Record(JStr(<< >>), JBool(FALSE), JFloat(1, 256), JInt(640), JInt(480), JInt(60),
         JArray(<< ModeString(R640x480, << "6", "0" >>) >>))

RawInputs ==
  { << >>,
    << RecMain >>,
    << RecNoName, RecOff, RecEmpty, RecEmptyName >>,
    << RecHuge >>,
    << RecNear >>,
    << RecNeg, RecTie >>,
    << RecDisabled >>,
    << RecOdd >>,
    << RecRates >>,
    << RecStale >>,
    << RecInf >>,
    << RecLeft, RecLid, RecRight >> }

\* ------------------------------------------------------------------------
\* State
\* ------------------------------------------------------------------------

VARIABLES
  monitors,            \* Vec<Monitor>
  configs,             \* Vec<MonitorConfig>
  monitor_list_state,  \* the selected monitor, 0-based, or None
  option_list_state,   \* the selected option, 0-based, or None
  focused_pane,        \* "Monitors" or "Options"
  info_message,        \* "none", "saved" or "error"
  status,              \* "running", "quit" (handle_key returned true), "panicked"
  overflow_checks,     \* the build's overflow-checks setting (debug: TRUE)
  last_effect,        \* the command or file the last key issued, or NoCommand
  trail                \* the latest consecutive value-change calls of one kind
                       \* on one monitor: [op, mon, increase, before]

vars == << monitors, configs, monitor_list_state, option_list_state,
           focused_pane, info_message, status, overflow_checks,
           last_effect, trail >>

NoCommand == [verb |-> "none"]

\* the session App::new returns for the pairs built
Started(pairs) ==
  /\ monitors = [i \in 1..Len(pairs) |-> pairs[i].monitor]
  /\ configs = [i \in 1..Len(pairs) |-> pairs[i].config]
  /\ monitor_list_state = init_list_state(Len(pairs))
  /\ option_list_state = init_list_state(OPTION_COUNT)
  /\ focused_pane = "Monitors"
  /\ info_message = "none"
  /\ status = "running"
  /\ overflow_checks \in BOOLEAN
  /\ last_effect = NoCommand
  /\ trail = << >>

\* App::new
Init == \E data \in RawInputs : Started(parse_monitors(data))

\* ------------------------------------------------------------------------
\* Operations
\* ------------------------------------------------------------------------

\* cycle_selection that stops at the two ends of the list
cycle_selection_clamped(current, max, forward) ==
  IF max = 0 THEN None
  ELSE IF current = None THEN 0
  ELSE IF forward THEN (IF current + 1 < max THEN current + 1 ELSE max - 1)
  ELSE (IF current > 0 THEN current - 1 ELSE 0)

Max(a, b) == IF a >= b THEN a ELSE b

\* Option<usize> after one cursor step
cycle_selection(current, max, forward) ==
  IF max = 0 THEN None
  ELSE IF current = None THEN 0
  ELSE IF forward THEN (current + 1) % max
  ELSE (current + max - 1) % max

\* cycle_resolution that leaves refresh_rate_index and refresh_rate alone
cycle_resolution_keeps_rate(monitor, config, increase) ==
  LET resolutions == Keys(monitor.modes)
      n   == Len(resolutions)
      idx == IF increase THEN (config.resolution_index + 1) % n
             ELSE (config.resolution_index + n - 1) % n
  IN IF n = 0 THEN config
     ELSE [config EXCEPT !.resolution_index = idx, !.resolution = resolutions[idx + 1]]

\* cycle_resolution with a given new index
ResolutionAt(monitor, config, idx) ==
  LET res   == Keys(monitor.modes)[idx + 1]
      rates == Get(monitor.modes, res)
  IN [config EXCEPT
        !.resolution_index = idx,
        !.resolution = res,
        !.refresh_rate_index = 0,
        !.refresh_rate = IF rates # << >> THEN rates[1] ELSE 60000]

\* cycle_resolution that steps forward whatever the direction
cycle_resolution_forward_only(monitor, config, increase) ==
  LET n == Len(monitor.modes) IN
  IF n = 0 THEN config
  ELSE ResolutionAt(monitor, config, (config.resolution_index + 1) % n)

\* cycle_resolution that stops at the ends instead of wrapping
cycle_resolution_clamped(monitor, config, increase) ==
  LET n == Len(monitor.modes)
      i == config.resolution_index
  IN IF n = 0 THEN config
     ELSE ResolutionAt(monitor, config,
                       IF increase THEN (IF i + 1 < n THEN i + 1 ELSE n - 1)
                       ELSE (IF i > 0 THEN i - 1 ELSE 0))

\* cycle_resolution without the is_empty guard, counting an empty list as
\* one of two entries and reading a missing key as the default string
cycle_resolution_unguarded(monitor, config, increase) ==
  LET n == Max(Len(monitor.modes), 2) IN
  IF Len(monitor.modes) > 0
  THEN ResolutionAt(monitor, config,
                    IF increase THEN (config.resolution_index + 1) % Len(monitor.modes)
                    ELSE (config.resolution_index + Len(monitor.modes) - 1)
                           % Len(monitor.modes))
  ELSE [config EXCEPT
          !.resolution_index = IF increase THEN (config.resolution_index + 1) % n
                               ELSE (config.resolution_index + n - 1) % n,
          !.resolution = << >>,
          !.refresh_rate_index = 0]

\* the config of `monitor` after cycle_resolution
cycle_resolution(monitor, config, increase) ==
  LET resolutions == Keys(monitor.modes)
      n   == Len(resolutions)
      idx == IF increase THEN (config.resolution_index + 1) % n
             ELSE (config.resolution_index + n - 1) % n
      res == resolutions[idx + 1]
      rates == Get(monitor.modes, res)
  IN IF n = 0 THEN config
     ELSE [config EXCEPT
             !.resolution_index = idx,
             !.resolution = res,
             !.refresh_rate_index = 0,
             !.refresh_rate = IF rates # << >> THEN rates[1] ELSE 60000]

\* cycle_refresh_rate that moves the index and leaves refresh_rate stale
cycle_refresh_rate_stale(monitor, config, increase) ==
  IF ~HasKey(monitor.modes, config.resolution) THEN config
  ELSE LET m == Len(Get(monitor.modes, config.resolution)) IN
       IF m = 0 THEN config
       ELSE [config EXCEPT
               !.refresh_rate_index =
                  IF increase THEN (config.refresh_rate_index + 1) % m
                  ELSE (config.refresh_rate_index + m - 1) % m]

\* cycle_refresh_rate whose backward step saturates at 0
cycle_refresh_rate_saturating(monitor, config, increase) ==
  IF ~HasKey(monitor.modes, config.resolution) THEN config
  ELSE LET rates == Get(monitor.modes, config.resolution)
           m   == Len(rates)
           j   == config.refresh_rate_index
           idx == IF increase THEN (j + 1) % m ELSE IF j > 0 THEN j - 1 ELSE 0
       IN IF m = 0 THEN config
          ELSE [config EXCEPT !.refresh_rate_index = idx,
                              !.refresh_rate = rates[idx + 1]]

\* cycle_refresh_rate that wraps at the number of resolutions
cycle_refresh_rate_by_resolutions(monitor, config, increase) ==
  IF ~HasKey(monitor.modes, config.resolution) THEN config
  ELSE LET rates == Get(monitor.modes, config.resolution)
           n   == Len(monitor.modes)
           idx == IF increase THEN (config.refresh_rate_index + 1) % n
                  ELSE (config.refresh_rate_index + n - 1) % n
       IN IF rates = << >> THEN config
          ELSE [config EXCEPT
                  !.refresh_rate_index = idx,
                  !.refresh_rate = IF idx < Len(rates) THEN rates[idx + 1]
                                   ELSE config.refresh_rate]

\* the config of `monitor` after cycle_refresh_rate
cycle_refresh_rate(monitor, config, increase) ==
  IF ~HasKey(monitor.modes, config.resolution) THEN config
  ELSE LET rates == Get(monitor.modes, config.resolution)
           m   == Len(rates)
           idx == IF increase THEN (config.refresh_rate_index + 1) % m
                  ELSE (config.refresh_rate_index + m - 1) % m
       IN IF m = 0 THEN config
          ELSE [config EXCEPT
                  !.refresh_rate_index = idx,
                  !.refresh_rate = rates[idx + 1]]

I32Min == -2147483647 - 1

\* config.scale + (SCALE_STEP or -SCALE_STEP) in i32: [overflow, value],
\* value being the two's-complement result
ScaleSum(scale, increase) ==
  IF increase /\ scale > I32Max - SCALE_STEP
  THEN [overflow |-> TRUE, value |-> I32Min + (SCALE_STEP - 1 - (I32Max - scale))]
  ELSE IF ~increase /\ scale < I32Min + SCALE_STEP
  THEN [overflow |-> TRUE, value |-> I32Max - (SCALE_STEP - 1 - (scale - I32Min))]
  ELSE [overflow |-> FALSE,
        value |-> IF increase THEN scale + SCALE_STEP ELSE scale - SCALE_STEP]

\* adjust_scale without the .max(MIN_SCALE)
adjust_scale_unclamped(config, increase, checks) ==
  LET sum == ScaleSum(config.scale, increase) IN
  IF sum.overflow /\ checks
  THEN [panic |-> TRUE, config |-> config]
  ELSE [panic |-> FALSE, config |-> [config EXCEPT !.scale = sum.value]]

\* adjust_scale: [panic, config]; an overflowing sum panics when the build
\* has overflow checks and wraps when it has none
adjust_scale(config, increase, checks) ==
  LET sum == ScaleSum(config.scale, increase) IN
  IF sum.overflow /\ checks
  THEN [panic |-> TRUE, config |-> config]
  ELSE [panic |-> FALSE,
        config |-> [config EXCEPT !.scale = Max(sum.value, MIN_SCALE)]]

\* get_other_monitor_info without `&& m.active`: the first monitor other than
\* current_idx
get_other_monitor_info_any(mons, current_idx) ==
  IF \A i \in 1..Len(mons) : i - 1 = current_idx THEN None
  ELSE (CHOOSE i \in 1..Len(mons) :
          i - 1 # current_idx /\ \A k \in 1..(i - 1) : k - 1 = current_idx) - 1

\* Option<(usize, String)>: the index (0-based) of the first active monitor
\* other than current_idx, or None
get_other_monitor_info(mons, current_idx) ==
  LET others == {i \in 1..Len(mons) : i - 1 # current_idx /\ mons[i].active}
  IN IF others = {} THEN None
     ELSE (CHOOSE i \in others : \A k \in others : i <= k) - 1

\* format!("{:.2}") of a value held in thousandths: [whole, cents], or
\* "inf" and "-inf"
Format2(milli) ==
  LET cents == (Abs(milli) + 5) \div 10
  IN IF IsInfinite(milli) THEN [neg |-> milli < 0, inf |-> TRUE]
     ELSE [neg |-> milli < 0, whole |-> cents \div 100, cents |-> cents % 100]

\* format!("{:.2}", config.scale_as_float()): [whole, cents]
FormatScale(scale) ==
  [neg |-> scale < 0, whole |-> Abs(scale) \div 100, cents |-> Abs(scale) % 100]

\* a `hyprctl keyword monitor` command that was run: its text, and ok, what
\* execute_hyprctl returned for it
MonitorCommand(verb, idx, other, ok) ==
  [verb |-> verb,
   ok |-> ok,
   name |-> monitors[idx + 1].name,
   resolution |-> configs[idx + 1].resolution,
   refresh_rate |-> Format2(configs[idx + 1].refresh_rate),
   scale |-> FormatScale(configs[idx + 1].scale),
   other |-> IF other = None THEN << >> ELSE monitors[other + 1].name]

\* the calls of adjust_scale that are explored
ScaleInWindow(scale, increase) ==
  \/ increase /\ scale < ScaleCap
  \/ ~increase /\ scale <= ScaleCap + SCALE_STEP
  \/ scale >= I32Max - HighWindow

\* trail after one more value-change call
Extend(op, mon, increase) ==
  LET entry == [op |-> op, mon |-> mon, increase |-> increase,
                before |-> configs[mon + 1]]
      same  == trail # << >> /\ trail[1].op = op /\ trail[1].mon = mon
      old   == IF same THEN trail ELSE << >>
  IN IF Len(old) < MaxTrail THEN Append(old, entry)
     ELSE Append(Tail(old), entry)

Running == status = "running"

\* no key writes a Monitor or changes the build
Frame ==
  /\ UNCHANGED << monitors, overflow_checks >>

\* KeyCode::Char('q') | KeyCode::Esc
KeyQuit ==
  /\ Running
  /\ status' = "quit"
  /\ info_message' = "none"
  /\ last_effect' = NoCommand
  /\ trail' = << >>
  /\ Frame
  /\ UNCHANGED << configs, monitor_list_state, option_list_state, focused_pane >>

\* KeyCode::Tab: toggle_pane
KeyTab ==
  /\ Running
  /\ focused_pane' = IF focused_pane = "Monitors" THEN "Options" ELSE "Monitors"
  /\ info_message' = "none"
  /\ last_effect' = NoCommand
  /\ trail' = << >>
  /\ Frame
  /\ UNCHANGED << configs, monitor_list_state, option_list_state, status >>

\* navigate_monitors without option_list_state.select(Some(0))
navigate_monitors_keeps_option(forward) ==
  /\ monitor_list_state' =
       cycle_selection(monitor_list_state, Len(monitors), forward)
  /\ UNCHANGED option_list_state

\* navigate_monitors(forward)
navigate_monitors(forward) ==
  /\ monitor_list_state' =
       cycle_selection(monitor_list_state, Len(monitors), forward)
  /\ option_list_state' = 0

\* navigate_options(forward)
navigate_options(forward) ==
  /\ option_list_state' = cycle_selection(option_list_state, OPTION_COUNT, forward)
  /\ UNCHANGED monitor_list_state

Navigate(forward) ==
  /\ Running
  /\ IF focused_pane = "Monitors"
     THEN navigate_monitors(forward) ELSE navigate_options(forward)
  /\ info_message' = "none"
  /\ last_effect' = NoCommand
  /\ trail' = << >>
  /\ Frame
  /\ UNCHANGED << configs, focused_pane, status >>

\* KeyCode::Char('j') | KeyCode::Down
KeyDown == Navigate(TRUE)

\* KeyCode::Char('k') | KeyCode::Up
KeyUp == Navigate(FALSE)

\* modify_selected_option(increase), reached with the Options pane focused
modify_selected_option(increase) ==
  LET mon_idx == monitor_list_state
      opt_idx == option_list_state
  IN
  IF mon_idx = None \/ opt_idx = None \/ opt_idx \notin {0, 1, 2}
  THEN UNCHANGED << configs, status >> /\ trail' = << >>
  ELSE
    LET monitor == monitors[mon_idx + 1]
        config  == configs[mon_idx + 1]
    IN
    CASE opt_idx = 0 ->
           /\ configs' = [configs EXCEPT
                            ![mon_idx + 1] = cycle_resolution(monitor, config, increase)]
           /\ trail' = Extend("cycle_resolution", mon_idx, increase)
           /\ UNCHANGED status
      [] opt_idx = 1 ->
           /\ configs' = [configs EXCEPT
                            ![mon_idx + 1] = cycle_refresh_rate(monitor, config, increase)]
           /\ trail' = Extend("cycle_refresh_rate", mon_idx, increase)
           /\ UNCHANGED status
      [] opt_idx = 2 ->
           LET r == adjust_scale(config, increase, overflow_checks) IN
           /\ ScaleInWindow(config.scale, increase)
           /\ configs' = [configs EXCEPT ![mon_idx + 1] = r.config]
           /\ status' = IF r.panic THEN "panicked" ELSE status
           /\ trail' = Extend("adjust_scale", mon_idx, increase)

\* the value keys without the match on focused_pane
ValueKey_any_pane(increase) ==
  /\ Running
  /\ modify_selected_option(increase)
  /\ info_message' = "none"
  /\ last_effect' = NoCommand
  /\ Frame
  /\ UNCHANGED << monitor_list_state, option_list_state, focused_pane >>

ValueKey(increase) ==
  /\ Running
  /\ IF focused_pane = "Options"
     THEN modify_selected_option(increase)
     ELSE UNCHANGED << configs, status >> /\ trail' = << >>
  /\ info_message' = "none"
  /\ last_effect' = NoCommand
  /\ Frame
  /\ UNCHANGED << monitor_list_state, option_list_state, focused_pane >>

\* KeyCode::Char('l') | KeyCode::Right
KeyRight == ValueKey(TRUE)

\* KeyCode::Char('h') | KeyCode::Left
KeyLeft == ValueKey(FALSE)

\* Enter on an option, with a disable_monitor that marks the selected monitor
\* inactive
EnterOn_disable_deactivates(opt) ==
  /\ Running
  /\ focused_pane = "Options"
  /\ option_list_state = opt
  /\ info_message' = "none"
  /\ trail' = << >>
  /\ monitors' = IF opt = DISABLE_OPTION_IDX /\ monitor_list_state # None
                 THEN [monitors EXCEPT ![monitor_list_state + 1].active = FALSE]
                 ELSE monitors
  /\ UNCHANGED << overflow_checks, monitor_list_state, option_list_state,
                  focused_pane, status >>

\* KeyCode::Enter with the Options pane focused and `opt` selected
EnterOn(opt) ==
  /\ Running
  /\ focused_pane = "Options"
  /\ option_list_state = opt
  /\ info_message' = "none"
  /\ trail' = << >>
  /\ Frame
  /\ UNCHANGED << monitor_list_state, option_list_state, focused_pane, status >>

\* apply_changes that puts the scale back to 1.00 when the command fails
EnterApply_rolls_back ==
  /\ EnterOn(APPLY_OPTION_IDX)
  /\ LET idx == monitor_list_state IN
     IF idx = None
     THEN last_effect' = NoCommand /\ UNCHANGED configs
     ELSE \E ok \in BOOLEAN :
            /\ last_effect' = MonitorCommand("apply", idx, None, ok)
            /\ configs' = IF ok THEN configs
                          ELSE [configs EXCEPT ![idx + 1].scale = 100]

\* apply_changes
EnterApply ==
  /\ EnterOn(APPLY_OPTION_IDX)
  /\ \E ok \in BOOLEAN :
       last_effect' = IF monitor_list_state = None THEN NoCommand
                      ELSE MonitorCommand("apply", monitor_list_state, None, ok)
  /\ UNCHANGED configs

\* set_as_main
EnterSetMain ==
  /\ EnterOn(SET_MAIN_IDX)
  /\ \E ok \in BOOLEAN :
       last_effect' = IF monitor_list_state = None THEN NoCommand
                      ELSE MonitorCommand("preferred", monitor_list_state, None, ok)
  /\ UNCHANGED configs

\* extend_relative(direction)
extend_relative(direction) ==
  LET idx   == monitor_list_state
      other == IF idx = None THEN None ELSE get_other_monitor_info(monitors, idx)
  IN /\ \E ok \in BOOLEAN :
          last_effect' = IF other = None THEN NoCommand
                         ELSE MonitorCommand(direction, idx, other, ok)
     /\ UNCHANGED configs

EnterExtendLeft == EnterOn(EXTEND_LEFT_IDX) /\ extend_relative("leftof")

EnterExtendRight == EnterOn(EXTEND_RIGHT_IDX) /\ extend_relative("rightof")

\* mirror_monitor that copies the source's whole config into the target
EnterMirror_copies_config ==
  /\ EnterOn(MIRROR_IDX)
  /\ LET idx   == monitor_list_state
         other == IF idx = None THEN None ELSE get_other_monitor_info(monitors, idx)
     IN IF other = None
        THEN last_effect' = NoCommand /\ UNCHANGED configs
        ELSE /\ configs' = [configs EXCEPT ![other + 1] = configs[idx + 1]]
             /\ \E ok \in BOOLEAN :
                  last_effect' = MonitorCommand("mirror", idx, other, ok)

\* mirror_monitor: the target's scale is written before the command is sent,
\* and the command carries the source's config
EnterMirror ==
  /\ EnterOn(MIRROR_IDX)
  /\ LET idx   == monitor_list_state
         other == IF idx = None THEN None ELSE get_other_monitor_info(monitors, idx)
     IN IF other = None
        THEN last_effect' = NoCommand /\ UNCHANGED configs
        ELSE /\ configs' = [configs EXCEPT
                              ![other + 1].scale = configs[idx + 1].scale]
             /\ \E ok \in BOOLEAN :
                  last_effect' = MonitorCommand("mirror", idx, other, ok)

\* toggle_dpms that flips dpms_on whatever the command returned
EnterToggleDpms_always_flips ==
  /\ EnterOn(BLACK_SCREEN_IDX)
  /\ LET idx == monitor_list_state IN
     IF idx = None
     THEN last_effect' = NoCommand /\ UNCHANGED configs
     ELSE LET is_on == configs[idx + 1].dpms_on IN
          \E ok \in BOOLEAN :
            /\ last_effect' = [verb |-> IF is_on THEN "dpms off" ELSE "dpms on",
                               ok |-> ok,
                               name |-> monitors[idx + 1].name]
            /\ configs' = [configs EXCEPT ![idx + 1].dpms_on = ~is_on]

\* toggle_dpms that flips dpms_on in every config when the command succeeds
EnterToggleDpms_all_monitors ==
  /\ EnterOn(BLACK_SCREEN_IDX)
  /\ LET idx == monitor_list_state IN
     IF idx = None
     THEN last_effect' = NoCommand /\ UNCHANGED configs
     ELSE LET is_on == configs[idx + 1].dpms_on IN
          \E ok \in BOOLEAN :
            /\ last_effect' = [verb |-> IF is_on THEN "dpms off" ELSE "dpms on",
                               ok |-> ok,
                               name |-> monitors[idx + 1].name]
            /\ configs' = IF ok
                           THEN [i \in 1..Len(configs) |->
                                   [configs[i] EXCEPT !.dpms_on = ~is_on]]
                           ELSE configs

\* toggle_dpms: dpms_on flips only when the command succeeds
EnterToggleDpms ==
  /\ EnterOn(BLACK_SCREEN_IDX)
  /\ LET idx == monitor_list_state IN
     IF idx = None
     THEN last_effect' = NoCommand /\ UNCHANGED configs
     ELSE LET is_on == configs[idx + 1].dpms_on IN
          \E ok \in BOOLEAN :
            /\ last_effect' = [verb |-> IF is_on THEN "dpms off" ELSE "dpms on",
                               ok |-> ok,
                               name |-> monitors[idx + 1].name]
            /\ configs' = IF ok THEN [configs EXCEPT ![idx + 1].dpms_on = ~is_on]
                           ELSE configs

\* save_config_to_file without `if monitor.active`: a line for every monitor
RECURSIVE SaveLines_every_monitor(_)
SaveLines_every_monitor(i) ==
  IF i > Len(monitors) THEN << >>
  ELSE << [name |-> monitors[i].name,
           resolution |-> configs[i].resolution,
           refresh_rate |-> Format2(configs[i].refresh_rate),
           scale |-> FormatScale(configs[i].scale)] >>
       \o SaveLines_every_monitor(i + 1)

\* the lines save_config_to_file writes for the monitors from index i on
RECURSIVE SaveLines(_)
SaveLines(i) ==
  IF i > Len(monitors) THEN << >>
  ELSE (IF monitors[i].active
        THEN << [name |-> monitors[i].name,
                 resolution |-> configs[i].resolution,
                 refresh_rate |-> Format2(configs[i].refresh_rate),
                 scale |-> FormatScale(configs[i].scale)] >>
        ELSE << >>) \o SaveLines(i + 1)

\* save_config_to_file: the path expansion, the directory creation and the
\* write may each fail
EnterSave ==
  /\ Running
  /\ focused_pane = "Options"
  /\ option_list_state = SAVE_OPTION_IDX
  /\ \E outcome \in {"expand_error", "mkdir_error", "write_error", "ok"} :
       /\ info_message' = IF outcome = "ok" THEN "saved" ELSE "error"
       /\ last_effect' = IF outcome \in {"ok", "write_error"}
                         THEN [verb |-> "save", lines |-> SaveLines(1)]
                         ELSE NoCommand
  /\ trail' = << >>
  /\ Frame
  /\ UNCHANGED << configs, monitor_list_state, option_list_state, focused_pane,
                  status >>

\* disable_monitor that sends its command with an empty name when no monitor
\* is selected
EnterDisable_unselected ==
  /\ EnterOn(DISABLE_OPTION_IDX)
  /\ \E ok \in BOOLEAN :
       last_effect' = [verb |-> "disable",
                       ok |-> ok,
                       name |-> IF monitor_list_state = None THEN << >>
                                ELSE monitors[monitor_list_state + 1].name]
  /\ UNCHANGED configs

\* disable_monitor
EnterDisable ==
  /\ EnterOn(DISABLE_OPTION_IDX)
  /\ \E ok \in BOOLEAN :
       last_effect' = IF monitor_list_state = None THEN NoCommand
                      ELSE [verb |-> "disable",
                            ok |-> ok,
                            name |-> monitors[monitor_list_state + 1].name]
  /\ UNCHANGED configs

\* KeyCode::Enter with the Monitors pane focused, or on one of the three
\* value options: no arm of the match does anything
EnterIdle ==
  /\ Running
  /\ focused_pane = "Monitors" \/ option_list_state \in {None, 0, 1, 2}
  /\ info_message' = "none"
  /\ last_effect' = NoCommand
  /\ trail' = << >>
  /\ Frame
  /\ UNCHANGED << configs, monitor_list_state, option_list_state, focused_pane,
                  status >>

\* any other key: only the banner is cleared
KeyOther ==
  /\ Running
  /\ info_message' = "none"
  /\ last_effect' = NoCommand
  /\ trail' = << >>
  /\ Frame
  /\ UNCHANGED << configs, monitor_list_state, option_list_state, focused_pane,
                  status >>

Next ==
  \/ KeyQuit
  \/ KeyTab
  \/ KeyDown
  \/ KeyUp
  \/ KeyRight
  \/ KeyLeft
  \/ EnterApply
  \/ EnterSetMain
  \/ EnterExtendLeft
  \/ EnterExtendRight
  \/ EnterMirror
  \/ EnterToggleDpms
  \/ EnterSave
  \/ EnterDisable
  \/ EnterIdle
  \/ KeyOther

Spec == Init /\ [][Next]_vars

\* ------------------------------------------------------------------------
\* Reading the trail
\* ------------------------------------------------------------------------

\* the latest value-change call
Last == trail[Len(trail)]

\* the latest key was a value-change call of kind op
LastWas(op) == trail # << >> /\ Last.op = op

\* the monitor and the config the trail is about
TrailMonitor == monitors[trail[1].mon + 1]

\* the config right after the k-th call of the trail
After(k) == IF k < Len(trail) THEN trail[k + 1].before ELSE configs[trail[1].mon + 1]

\* the config after the latest call
Now == After(Len(trail))

\* the calls from..to of the trail all went in direction increase
SameDirection(from, to, increase) ==
  \A k \in from..to : trail[k].increase = increase

\* ------------------------------------------------------------------------
\* Claims
\* ------------------------------------------------------------------------

\* C1: for every monitor with a non-empty modes map, in every reachable
\* state, resolution_index is below the number of resolution keys and
\* refresh_rate_index is below the number of rates of the selected
\* resolution.
C1_IndicesInRange ==
  \A i \in 1..Len(monitors) :
    monitors[i].modes # << >> =>
      /\ configs[i].resolution_index \in 0..(Len(monitors[i].modes) - 1)
      /\ HasKey(monitors[i].modes, configs[i].resolution)
      /\ configs[i].refresh_rate_index
           \in 0..(Len(Get(monitors[i].modes, configs[i].resolution)) - 1)

\* C1 witness: cycle_resolution has just moved from a resolution with a
\* refresh_rate_index of 1 or more to a resolution that has fewer rates than
\* that index needs.
C1_Witness ==
  /\ LastWas("cycle_resolution")
  /\ Last.before.refresh_rate_index >= Len(Get(TrailMonitor.modes, Now.resolution))
  /\ Now.resolution_index # Last.before.resolution_index

\* C2: lock-step: for every monitor with non-empty modes, the keys of modes
\* are in ascending lexicographic order, resolution is the
\* resolution_index-th key and refresh_rate is
\* modes[resolution][refresh_rate_index].
C2_LockStep ==
  \A i \in 1..Len(monitors) :
    LET modes == monitors[i].modes
        c     == configs[i]
    IN modes # << >> =>
         /\ \A k \in 1..(Len(modes) - 1) : StrLess(modes[k].key, modes[k + 1].key)
         /\ c.resolution_index < Len(modes)
         /\ c.resolution = modes[c.resolution_index + 1].key
         /\ c.refresh_rate_index < Len(modes[c.resolution_index + 1].rates)
         /\ c.refresh_rate = modes[c.resolution_index + 1].rates[c.refresh_rate_index + 1]

\* C2 witness: cycle_refresh_rate has just changed the rate of an inactive
\* monitor.
C2_Witness ==
  /\ LastWas("cycle_refresh_rate")
  /\ ~TrailMonitor.active
  /\ Now.refresh_rate # Last.before.refresh_rate

\* C3: cycle_resolution on a monitor with n >= 1 resolutions moves
\* resolution_index to (i+1) mod n forward and (i+n-1) mod n backward, sets
\* resolution to the key at the new index, refresh_rate_index to 0 and
\* refresh_rate to the first rate of the new resolution.
C3_CycleResolution ==
  LastWas("cycle_resolution") /\ TrailMonitor.modes # << >> =>
    LET modes == TrailMonitor.modes
        n     == Len(modes)
        i     == Last.before.resolution_index
        new   == IF Last.increase THEN (i + 1) % n ELSE (i + n - 1) % n
    IN /\ Now.resolution_index = new
       /\ Now.resolution = modes[new + 1].key
       /\ Now.refresh_rate_index = 0
       /\ Now.refresh_rate = modes[new + 1].rates[1]

\* C3 witness: a backward call from a refresh_rate_index above 0 on a monitor
\* with three resolutions.
C3_Witness ==
  /\ LastWas("cycle_resolution")
  /\ ~Last.increase
  /\ Len(TrailMonitor.modes) >= 3
  /\ Last.before.refresh_rate_index > 0

\* C4: n consecutive cycle_resolution calls in one direction on a monitor
\* with n resolutions select every resolution key exactly once, and after
\* each of them refresh_rate_index is 0.
C4_FullCycle ==
  LET n    == Len(TrailMonitor.modes)
      from == Len(trail) - n + 1
  IN ( /\ LastWas("cycle_resolution")
       /\ n >= 1
       /\ Len(trail) >= n
       /\ \E d \in BOOLEAN : SameDirection(from, Len(trail), d) )
     =>
       /\ {After(k).resolution : k \in from..Len(trail)}
            = {TrailMonitor.modes[j].key : j \in 1..n}
       /\ \A k \in from..Len(trail) : After(k).refresh_rate_index = 0

\* C4 witness: three backward calls in a row on a monitor with three
\* resolutions.
C4_Witness ==
  /\ LastWas("cycle_resolution")
  /\ Len(TrailMonitor.modes) = 3
  /\ Len(trail) >= 3
  /\ SameDirection(Len(trail) - 2, Len(trail), FALSE)

\* config after count calls of cycle_resolution in one direction
RECURSIVE ResolutionTimes(_, _, _, _)
ResolutionTimes(monitor, config, increase, count) ==
  IF count = 0 THEN config
  ELSE ResolutionTimes(monitor, cycle_resolution(monitor, config, increase),
                       increase, count - 1)

\* config after count calls of cycle_refresh_rate in one direction
RECURSIVE RefreshTimes(_, _, _, _)
RefreshTimes(monitor, config, increase, count) ==
  IF count = 0 THEN config
  ELSE RefreshTimes(monitor, cycle_refresh_rate(monitor, config, increase),
                    increase, count - 1)

\* the last 2k calls of the trail were k forward calls and then k backward
\* calls
ForwardThenBack(k) ==
  /\ Len(trail) >= 2 * k
  /\ SameDirection(Len(trail) - 2 * k + 1, Len(trail) - k, TRUE)
  /\ SameDirection(Len(trail) - k + 1, Len(trail), FALSE)

\* the session runs and no trace of the last key is left.  Any key other
\* than the mapped ones leads here and keeps the configs, so every reachable
\* list of configs is held in such a state.
AtRest ==
  Running /\ trail = << >> /\ last_effect = NoCommand /\ info_message = "none"

\* C5: count forward cycle_resolution calls followed by count backward ones
\* return resolution_index to its value before them, and count forward
\* cycle_refresh_rate calls followed by count backward ones return
\* refresh_rate_index and refresh_rate to theirs: for the calls the session
\* has made, and for every count up to MaxCount from every reachable config.
C5_RoundTrip ==
  /\ \A k \in 1..(MaxTrail \div 2) :
       ForwardThenBack(k) =>
         LET start == trail[Len(trail) - 2 * k + 1].before IN
         /\ LastWas("cycle_resolution") =>
              Now.resolution_index = start.resolution_index
         /\ LastWas("cycle_refresh_rate") =>
              /\ Now.refresh_rate_index = start.refresh_rate_index
              /\ Now.refresh_rate = start.refresh_rate
  /\ AtRest => \A i \in 1..Len(monitors) : \A count \in 1..MaxCount :
       LET m == monitors[i]
           c == configs[i]
           res  == ResolutionTimes(m, ResolutionTimes(m, c, TRUE, count), FALSE, count)
           rate == RefreshTimes(m, RefreshTimes(m, c, TRUE, count), FALSE, count)
       IN /\ res.resolution_index = c.resolution_index
          /\ rate.refresh_rate_index = c.refresh_rate_index
          /\ rate.refresh_rate = c.refresh_rate

\* C5 witness: two forward and then two backward cycle_refresh_rate calls
\* that started on the last rate of a resolution, so that the forward calls
\* wrapped.
C5_Witness ==
  /\ LastWas("cycle_refresh_rate")
  /\ ForwardThenBack(2)
  /\ LET start == trail[Len(trail) - 3].before IN
     /\ start.refresh_rate_index > 0
     /\ start.refresh_rate_index + 1 = Len(Get(TrailMonitor.modes, start.resolution))

\* C6: cycle_refresh_rate moves refresh_rate_index to (j+1) mod m forward
\* and (j+m-1) mod m backward, m being the number of rates of the selected
\* resolution, sets refresh_rate to the rate at the new index and leaves
\* resolution, resolution_index, scale and dpms_on unchanged.
C6_CycleRefreshRate ==
  LastWas("cycle_refresh_rate") /\ TrailMonitor.modes # << >> =>
    LET rates == Get(TrailMonitor.modes, Last.before.resolution)
        m     == Len(rates)
        j     == Last.before.refresh_rate_index
        new   == IF Last.increase THEN (j + 1) % m ELSE (j + m - 1) % m
    IN Now = [Last.before EXCEPT !.refresh_rate_index = new,
                                 !.refresh_rate = rates[new + 1]]

\* C6 witness: a forward call on the last rate of a resolution whose number
\* of rates differs from the number of resolutions and from the number of
\* rates of the first resolution.
C6_Witness ==
  /\ LastWas("cycle_refresh_rate")
  /\ Last.increase
  /\ LET m == Len(Get(TrailMonitor.modes, Last.before.resolution)) IN
     /\ m >= 2
     /\ m # Len(TrailMonitor.modes)
     /\ m # Len(TrailMonitor.modes[1].rates)
     /\ Last.before.refresh_rate_index = m - 1

\* C7: the scale that an adjust_scale call returns is at least 50, whatever
\* the direction and the starting scale, for every call of a sequence.
C7_ScaleFloor ==
  LastWas("adjust_scale") =>
    \A k \in 1..Len(trail) :
      (k < Len(trail) \/ status # "panicked") => After(k).scale >= MIN_SCALE

\* C7 witness: a decrease from a built scale below 50.
C7_Witness ==
  /\ LastWas("adjust_scale")
  /\ ~Last.increase
  /\ Last.before.scale < MIN_SCALE
  /\ status = "running"

\* C8 as stated: in every reachable state every scale is at least 50.
C8_ScaleAtLeastMinScale ==
  \A i \in 1..Len(configs) : configs[i].scale >= MIN_SCALE

\* the smallest scale build produces: parse_scale of a raw scale of 0
BuildFloor == parse_scale([scale |-> JInt(0)])

\* C8 amended: in every reachable state, right after build from any raw
\* scale and after mirror has copied a scale, every scale is at least the
\* floor that build enforces, round(0.1 * 100) = 10; the floor of 50 holds
\* only for what adjust_scale returns.
C8_ScaleAtLeastBuildFloor ==
  /\ BuildFloor = 10
  /\ \A i \in 1..Len(configs) : configs[i].scale >= BuildFloor

\* C8 witness: mirror has just copied the smallest built scale, which is
\* below 50, into its target.
C8_Witness ==
  /\ last_effect.verb = "mirror"
  /\ \E i \in 1..Len(monitors) :
       /\ monitors[i].name = last_effect.other
       /\ configs[i].scale < MIN_SCALE
       /\ configs[i].scale = BuildFloor

\* C9 as stated: adjust_scale(increase) sets scale to max(scale + 25, 50) and
\* adjust_scale(decrease) to max(scale - 25, 50), changes no other field, the
\* same on a monitor with zero modes.  (The result is at least 50, so the
\* step is taken off the result instead of added to the start.)
C9_AdjustScale ==
  LastWas("adjust_scale") =>
    LET old == Last.before.scale IN
    /\ status # "panicked"
    /\ Now = [Last.before EXCEPT !.scale = Now.scale]
    /\ IF Last.increase
       THEN IF old >= MIN_SCALE - SCALE_STEP THEN Now.scale - SCALE_STEP = old
            ELSE Now.scale = MIN_SCALE
       ELSE IF old >= MIN_SCALE + SCALE_STEP THEN Now.scale + SCALE_STEP = old
            ELSE Now.scale = MIN_SCALE

\* C10 as stated: for every starting scale of at least 50, up to the largest
\* i32, adjust_scale(increase) returns exactly scale + 25, without overflow,
\* wrap-around or failure.
C10_NoCeiling ==
  LastWas("adjust_scale") /\ Last.increase /\ Last.before.scale >= MIN_SCALE =>
    /\ status # "panicked"
    /\ Now.scale - SCALE_STEP = Last.before.scale

\* the step ran toggle_dpms on the monitor at index i (0-based)
ToggledDpms(i) ==
  /\ last_effect'.verb \in {"dpms off", "dpms on"}
  /\ monitor_list_state = i

\* C11: dpms_on is true after build; a toggle_dpms on the selected monitor
\* flips that monitor's dpms_on if and only if the command reported success,
\* and keeps it on a failed command; no other step (cycling, scale
\* adjustment, apply, set-as-main, mirror, extend, disable, save,
\* navigation) and no toggle on another monitor changes a dpms_on.
C11_DpmsOnlyByToggle ==
  /\ \A i \in 1..Len(configs) : configs[i].dpms_on
  /\ [][ \A i \in 1..Len(configs) :
           IF ToggledDpms(i - 1)
           THEN (configs'[i].dpms_on # configs[i].dpms_on) <=> last_effect'.ok
           ELSE configs'[i].dpms_on = configs[i].dpms_on ]_vars

\* C11 witness: a monitor was switched off by a successful toggle, and the
\* toggle after it failed and left dpms_on false.
C11_Witness ==
  /\ last_effect.verb = "dpms on"
  /\ ~last_effect.ok
  /\ ~configs[monitor_list_state + 1].dpms_on

\* the step ran mirror_monitor and sent its command
Mirrored == last_effect'.verb = "mirror"

\* C12: after mirror_monitor with selected (source) monitor s and target t,
\* config[t].scale equals config[s].scale, config[t]'s resolution,
\* refresh_rate, resolution_index, refresh_rate_index and dpms_on are
\* unchanged and config[s] is entirely unchanged, whether the command
\* reported success or failure.
C12_MirrorCopiesOnlyScale ==
  [][ Mirrored =>
        LET s == monitor_list_state + 1
            t == get_other_monitor_info(monitors, monitor_list_state) + 1
        IN \A ok \in BOOLEAN : last_effect'.ok = ok =>
             /\ configs'[t].scale = configs[s].scale
             /\ configs'[t].resolution = configs[t].resolution
             /\ configs'[t].refresh_rate = configs[t].refresh_rate
             /\ configs'[t].resolution_index = configs[t].resolution_index
             /\ configs'[t].refresh_rate_index = configs[t].refresh_rate_index
             /\ configs'[t].dpms_on = configs[t].dpms_on
             /\ configs'[s] = configs[s] ]_vars

\* C12 witness: a mirror whose command failed has left the source's scale,
\* a built scale below 50 that no adjust_scale call yields, in a target
\* whose resolution and dpms_on differ from the source's.
C12_Witness ==
  /\ last_effect.verb = "mirror"
  /\ ~last_effect.ok
  /\ \E t \in 1..Len(monitors) :
       LET s == monitor_list_state + 1 IN
       /\ monitors[t].name = last_effect.other
       /\ monitors[t].name = << "H" >>
       /\ configs[t].scale = configs[s].scale
       /\ configs[t].scale < MIN_SCALE
       /\ configs[t].resolution # configs[s].resolution
       /\ configs[t].dpms_on # configs[s].dpms_on

\* the verbs of the commands of apply, set-as-main, extend left and right,
\* mirror and disable
OptimisticVerbs == {"apply", "preferred", "leftof", "rightof", "mirror", "disable"}

\* the configs after the action that sends a command of this verb: the only
\* write among these actions is mirror's copy of the scale
Optimistic(verb) ==
  IF verb = "mirror"
  THEN [configs EXCEPT
          ![get_other_monitor_info(monitors, monitor_list_state) + 1].scale =
             configs[monitor_list_state + 1].scale]
  ELSE configs

\* C13: for apply, set-as-main, extend left/right, mirror and disable, the
\* monitors and configs after the action are the same whether the command
\* reported success or failure: they are what the action makes of the state
\* before it, and a failed command rolls back or alters nothing.
C13_OutcomeIgnored ==
  [][ last_effect'.verb \in OptimisticVerbs =>
        \A ok \in BOOLEAN : last_effect'.ok = ok =>
          /\ monitors' = monitors
          /\ configs' = Optimistic(last_effect'.verb) ]_vars

\* C13 witness: the operator has moved the first monitor of the catalog of
\* three resolutions off its built resolution and scale, and the apply
\* command carrying those values has failed.
C13_Witness ==
  /\ last_effect.verb = "apply"
  /\ ~last_effect.ok
  /\ monitors[1].name = << "a" >>
  /\ monitor_list_state = 0
  /\ configs[1].resolution_index = 2
  /\ configs[1].scale = 75
  /\ last_effect.resolution = configs[1].resolution

\* the cursor the rule of C14 gives
Advance(current, count, forward) ==
  IF count = 0 THEN None
  ELSE IF current = None THEN 0
  ELSE IF forward THEN (current + 1) % count
  ELSE (current + count - 1) % count

\* C14: cycle_selection(current, count, forward) returns no selection when
\* count is 0, 0 when current is absent (in either direction), otherwise
\* (i+1) mod count forward and (i+count-1) mod count backward, for every
\* count and cursor up to MaxList; and every j/Down or k/Up key moves the
\* monitor cursor (count = number of monitors) or the option cursor
\* (count = OPTION_COUNT) by exactly this rule.
C14_CycleSelection ==
  /\ \A count \in 0..MaxList : \A forward \in BOOLEAN :
       /\ cycle_selection(None, count, forward) = (IF count = 0 THEN None ELSE 0)
       /\ \A i \in 0..MaxList :
            cycle_selection(i, count, forward) =
              IF count = 0 THEN None
              ELSE IF forward THEN (i + 1) % count ELSE (i + count - 1) % count
  /\ [][ \A forward \in BOOLEAN :
           Navigate(forward) =>
             IF focused_pane = "Monitors"
             THEN monitor_list_state' =
                    Advance(monitor_list_state, Len(monitors), forward)
             ELSE option_list_state' =
                    Advance(option_list_state, OPTION_COUNT, forward) ]_vars

\* C14 witness: in a list of two monitors the monitor cursor is on the last
\* monitor and the option cursor on the last option, each one backward step
\* from its start.
C14_Witness ==
  /\ Len(monitors) = 2
  /\ monitor_list_state = 1
  /\ option_list_state = OPTION_COUNT - 1
  /\ focused_pane = "Options"

\* C15: on a monitor with zero modes, cycle_resolution and
\* cycle_refresh_rate in either direction are no-ops: every field of its
\* config (resolution, the empty string, refresh_rate, both indices, scale,
\* dpms_on) is unchanged and the call does not fail; for the calls the
\* session has made and for both calls in both directions from every
\* reachable config.
C15_NoModesNoOp ==
  /\ ( /\ LastWas("cycle_resolution") \/ LastWas("cycle_refresh_rate")
       /\ TrailMonitor.modes = << >> )
     =>
       /\ status = "running"
       /\ Now.resolution = << >>
       /\ \A k \in 1..Len(trail) : After(k) = trail[k].before
  /\ \A i \in 1..Len(monitors) :
       monitors[i].modes = << >> =>
         \A increase \in BOOLEAN :
           /\ cycle_resolution(monitors[i], configs[i], increase) = configs[i]
           /\ cycle_refresh_rate(monitors[i], configs[i], increase) = configs[i]

\* C15 witness: a forward and then a backward cycle_refresh_rate call on a
\* monitor with zero modes whose scale was changed before.
C15_Witness ==
  /\ LastWas("cycle_refresh_rate")
  /\ TrailMonitor.modes = << >>
  /\ Len(trail) >= 2
  /\ trail[Len(trail) - 1].increase
  /\ ~Last.increase
  /\ Now.scale # 100

\* C16: when the monitor list is empty or no monitor is selected, every key
\* event (navigation in both panes, value change, Enter on every option)
\* completes without failure, changes no config and issues no hyprctl
\* command: at most the save file is written.
C16_NothingSelected ==
  [][ monitors = << >> \/ monitor_list_state = None =>
        /\ configs' = configs
        /\ status' # "panicked"
        /\ last_effect'.verb \in {"none", "save"} ]_vars

\* C16 witness: with an empty monitor list the Options pane is focused and
\* the option cursor was moved to the mirror option, where Enter runs
\* mirror_monitor.
C16_Witness ==
  /\ monitors = << >>
  /\ monitor_list_state = None
  /\ focused_pane = "Options"
  /\ option_list_state = MIRROR_IDX
  /\ status = "running"

\* the pairs App::new builds from each answer
Built == [data \in RawInputs |-> parse_monitors(data)]

\* the records of an answer whose name is a non-empty string, in input order
NamedRecords(data) ==
  SelectSeq(data, LAMBDA r : r.name.t = "str" /\ r.name.v # << >>)

\* C17: build over a sequence of raw records yields exactly one
\* (Monitor, MonitorConfig) pair for each record whose name is a non-empty
\* string and none for a record whose name is missing or empty, in input
\* order, each pair being the one the record yields on its own; the monitor
\* list and the config list have equal length in every reachable state, and
\* the monitors are those of the named records of the answer.
C17_BuildPairs ==
  /\ \A data \in RawInputs :
       /\ Len(Built[data]) = Len(NamedRecords(data))
       /\ \A i \in 1..Len(NamedRecords(data)) :
            /\ Built[data][i].monitor.name = NamedRecords(data)[i].name.v
            /\ Built[data][i] = parse_single_monitor(NamedRecords(data)[i])
  /\ [](/\ Len(monitors) = Len(configs)
        /\ \E data \in RawInputs :
             /\ Len(monitors) = Len(Built[data])
             /\ \A i \in 1..Len(monitors) :
                  monitors[i] = Built[data][i].monitor)

\* C17 witness: the session built from an answer of four records whose first
\* has no name and whose last has an empty name holds the second and the
\* third, in that order.
C17_Witness ==
  /\ Len(monitors) = 2
  /\ Len(configs) = 2
  /\ monitors[1].name = << "e" >>
  /\ monitors[2].name = << "g" >>

\* the records of all answers
AllRecords == UNION { {data[k] : k \in 1..Len(data)} : data \in RawInputs }

\* the record a monitor was built from: names are unique over the answers
RecordNamed(name) == CHOOSE r \in AllRecords : r.name = JStr(name)

\* C18: build sets active to the negation of the record's disabled flag, and
\* a record with no disabled field is built as inactive; seen on every
\* monitor of every reachable state.
C18_ActiveIsNotDisabled ==
  \A i \in 1..Len(monitors) :
    /\ RecordNamed(monitors[i].name).disabled = JBool(TRUE) => ~monitors[i].active
    /\ RecordNamed(monitors[i].name).disabled = JBool(FALSE) => monitors[i].active
    /\ RecordNamed(monitors[i].name).disabled = JNull => ~monitors[i].active

\* C18 witness: a session holding a monitor built inactive from a record
\* with no disabled field and a monitor built active from disabled: false.
C18_Witness ==
  /\ Len(monitors) = 2
  /\ RecordNamed(monitors[1].name).disabled = JNull
  /\ ~monitors[1].active
  /\ RecordNamed(monitors[2].name).disabled = JBool(FALSE)
  /\ monitors[2].active

\* the session is as App::new built it from one of the answers
AsBuilt ==
  \E data \in RawInputs :
    /\ Len(monitors) = Len(Built[data])
    /\ \A i \in 1..Len(monitors) :
         /\ monitors[i] = Built[data][i].monitor
         /\ configs[i] = Built[data][i].config

\* C19: build runs best-match selection only when the monitor is active and
\* has at least one resolution: for an inactive monitor or an empty catalog
\* both indices are (0, 0) whatever width, height and refresh rate the
\* record reports; with an empty catalog resolution is the empty string and
\* refresh_rate is 60.0; with a non-empty catalog on an inactive monitor
\* resolution is the first key and refresh_rate its highest rate.  Stated of
\* every session as built.
C19_NoBestMatch ==
  AsBuilt => \A i \in 1..Len(monitors) :
    LET m == monitors[i]
        c == configs[i]
    IN /\ (~m.active \/ m.modes = << >>) =>
            c.resolution_index = 0 /\ c.refresh_rate_index = 0
       /\ m.modes = << >> =>
            c.resolution = << >> /\ c.refresh_rate = 60000
       /\ (~m.active /\ m.modes # << >>) =>
            /\ c.resolution = m.modes[1].key
            /\ \E k \in 1..Len(m.modes[1].rates) :
                 c.refresh_rate = m.modes[1].rates[k]
            /\ \A k \in 1..Len(m.modes[1].rates) :
                 c.refresh_rate >= m.modes[1].rates[k]

\* C19 witness: a session as built that holds an inactive monitor whose
\* record reports the last key of its catalog at that key's second rate,
\* and an active monitor with an empty catalog.
C19_Witness ==
  /\ AsBuilt
  /\ Len(monitors) = 2
  /\ ~monitors[1].active
  /\ Len(monitors[1].modes) = 2
  /\ RecordNamed(monitors[1].name).width = JInt(640)
  /\ monitors[1].modes[2].key = R640x480
  /\ monitors[1].modes[2].rates[2] = 60000
  /\ RecordNamed(monitors[1].name).refreshRate = JInt(60)
  /\ configs[1].resolution = R1920x1080
  /\ monitors[2].active
  /\ monitors[2].modes = << >>

\* (w - target_w)^2 + (h - target_h)^2 for a label "<w>x<h>"
LabelDistance(label, target_w, target_h) ==
  Square(DigitsVal(Split(label, "x")[1]) - target_w)
    + Square(DigitsVal(Split(label, "x")[2]) - target_h)

\* the distance of the k-th key of monitor i from the width and height its
\* record reports, 0 standing for a missing one
ReportedDistance(i, k) ==
  LabelDistance(monitors[i].modes[k].key,
                AsI64Or(RecordNamed(monitors[i].name).width, 0),
                AsI64Or(RecordNamed(monitors[i].name).height, 0))

\* C20: for an active monitor with a non-empty catalog, build picks the
\* resolution whose squared distance (w - target_w)^2 + (h - target_h)^2 to
\* the reported (width, height) is minimal over all keys, and among keys at
\* equal minimal distance the one that comes first in the catalog's
\* lexicographic key order.  Stated of every session as built.
C20_BestMatch ==
  AsBuilt => \A i \in 1..Len(monitors) :
    monitors[i].active /\ monitors[i].modes # << >> =>
      /\ configs[i].resolution_index < Len(monitors[i].modes)
      /\ \A k \in 1..Len(monitors[i].modes) :
           /\ ReportedDistance(i, configs[i].resolution_index + 1)
                <= ReportedDistance(i, k)
           /\ k < configs[i].resolution_index + 1 =>
                ReportedDistance(i, configs[i].resolution_index + 1)
                  < ReportedDistance(i, k)

\* C20 witness: a session as built in which the nearest key of the first
\* monitor is not its first key, and the two keys of the second monitor are
\* equally far from what its record reports, the first of them being
\* chosen.
C20_Witness ==
  /\ AsBuilt
  /\ Len(monitors) = 2
  /\ monitors[1].active
  /\ configs[1].resolution_index = 1
  /\ ReportedDistance(1, 2) = 0
  /\ monitors[2].active
  /\ Len(monitors[2].modes) = 2
  /\ ReportedDistance(2, 1) = ReportedDistance(2, 2)
  /\ ReportedDistance(2, 1) > 0
  /\ configs[2].resolution_index = 0

\* the label is two integers separated by a single 'x'
TwoIntegers(label) ==
  /\ Len(Split(label, "x")) = 2
  /\ ParseI64(Split(label, "x")[1]).ok
  /\ ParseI64(Split(label, "x")[2]).ok

\* C21 as stated: a resolution label that is not exactly two integers
\* separated by a single 'x' (three pieces of which one is not a number, a
\* trailing 'x') is assigned the maximum distance, so build never chooses it
\* over a well-formed label.
C21_MalformedLabelIsFarthest ==
  \A i \in 1..Len(monitors) :
    /\ \A k \in 1..Len(monitors[i].modes) :
         ~TwoIntegers(monitors[i].modes[k].key) =>
           resolution_distance(monitors[i].modes[k].key,
                               AsI64Or(RecordNamed(monitors[i].name).width, 0),
                               AsI64Or(RecordNamed(monitors[i].name).height, 0))
             = DistMax
    /\ ( /\ AsBuilt
         /\ monitors[i].active
         /\ \E k \in 1..Len(monitors[i].modes) :
              TwoIntegers(monitors[i].modes[k].key) )
       => TwoIntegers(configs[i].resolution)

\* the refresh rate the record of monitor i reports, in thousandths, 60.0
\* standing for a missing one
ReportedRate(i) ==
  Thousandths(AsF64Or(RecordNamed(monitors[i].name).refreshRate, 60, 0))

\* the k-th rate of the chosen resolution of monitor i is within 0.1 Hz of
\* the reported rate
NearReported(i, k) ==
  /\ ~IsInfinite(monitors[i].modes[configs[i].resolution_index + 1].rates[k])
  /\ monitors[i].modes[configs[i].resolution_index + 1].rates[k]
       - ReportedRate(i) < 100
  /\ ReportedRate(i)
       - monitors[i].modes[configs[i].resolution_index + 1].rates[k] < 100

\* C22: within the winning resolution's rate list, best-match selection
\* returns the index of the first (highest) rate whose absolute difference
\* from the reported current rate is below 0.1 Hz, and index 0 when no rate
\* is within 0.1 Hz.  Stated of every active monitor with a catalog in every
\* session as built.
C22_FirstRateWithinTolerance ==
  AsBuilt => \A i \in 1..Len(monitors) :
    monitors[i].active /\ monitors[i].modes # << >> =>
      LET n == Len(monitors[i].modes[configs[i].resolution_index + 1].rates)
          idx == configs[i].refresh_rate_index
      IN /\ idx < n
         /\ (\E k \in 1..n : NearReported(i, k)) =>
              /\ NearReported(i, idx + 1)
              /\ \A k \in 1..idx : ~NearReported(i, k)
         /\ (\A k \in 1..n : ~NearReported(i, k)) => idx = 0

\* C22 witness: a session as built in which the chosen rate is not the
\* first of its list, a later rate is within 0.1 Hz too and is nearer to the
\* reported rate than the chosen one.
C22_Witness ==
  /\ AsBuilt
  /\ Len(monitors) = 1
  /\ monitors[1].active
  /\ configs[1].refresh_rate_index = 1
  /\ Len(monitors[1].modes[configs[1].resolution_index + 1].rates) = 3
  /\ NearReported(1, 2)
  /\ NearReported(1, 3)
  /\ ~NearReported(1, 1)
  /\ Abs(monitors[1].modes[configs[1].resolution_index + 1].rates[3]
           - ReportedRate(1))
       < Abs(monitors[1].modes[configs[1].resolution_index + 1].rates[2]
               - ReportedRate(1))

\* C23 as stated: for every monitor produced by build from any list of mode
\* strings, every resolution key of modes maps to a non-empty rate list that
\* is strictly descending and in which no two entries, adjacent or not,
\* differ by less than 0.01.
C23_RatesStrictlyDescending ==
  \A i \in 1..Len(monitors) :
    \A k \in 1..Len(monitors[i].modes) :
      /\ monitors[i].modes[k].rates # << >>
      /\ \A a \in 1..Len(monitors[i].modes[k].rates) :
           \A b \in (a + 1)..Len(monitors[i].modes[k].rates) :
             /\ monitors[i].modes[k].rates[a] > monitors[i].modes[k].rates[b]
             /\ ~WithinTolerance(monitors[i].modes[k].rates[a],
                                 monitors[i].modes[k].rates[b], 10)

\* the mode string has an '@' and its rate part, the trailing "Hz" stripped,
\* is a number
WellFormedMode(j) ==
  /\ j.t = "str"
  /\ SplitOnce(j.v, "@").ok
  /\ ParseF64(TrimEndHz(SplitOnce(j.v, "@").right)).ok

\* the record with the malformed mode strings taken out of availableModes
OnlyWellFormed(r) ==
  IF r.availableModes.t = "array"
  THEN [r EXCEPT !.availableModes =
          [t |-> "array", v |-> SelectSeq(r.availableModes.v, WellFormedMode)]]
  ELSE r

\* for every record with a name, the catalog of its well-formed mode strings
WellFormedCatalog ==
  [r \in {x \in AllRecords : x.name.t = "str"} |-> parse_modes(OnlyWellFormed(r))]

ActiveUpTo(i) == Cardinality({k \in 1..i : monitors[k].active})

\* C25: saving emits exactly one monitor line for each monitor whose active
\* flag is true and none for an inactive monitor, in monitor-list order, each
\* line carrying that monitor's own name and its own config's current
\* resolution, refresh_rate and scale (both with two decimals); the save
\* changes no monitor and no config.
C25_SaveLines ==
  [][last_effect'.verb = "save" =>
       /\ monitors' = monitors
       /\ configs' = configs
       /\ Len(last_effect'.lines) = ActiveUpTo(Len(monitors))
       /\ \A i \in 1..Len(monitors) :
            monitors[i].active =>
              /\ last_effect'.lines[ActiveUpTo(i)].name = monitors[i].name
              /\ last_effect'.lines[ActiveUpTo(i)].resolution
                   = configs[i].resolution
              /\ last_effect'.lines[ActiveUpTo(i)].refresh_rate
                   = Format2(configs[i].refresh_rate)
              /\ last_effect'.lines[ActiveUpTo(i)].scale
                   = FormatScale(configs[i].scale)]_vars

\* C25 witness: a save has written two lines for three monitors of which the
\* middle one is inactive, the second line being the third monitor's.
C25_Witness ==
  /\ last_effect.verb = "save"
  /\ Len(monitors) = 3
  /\ monitors[1].active
  /\ ~monitors[2].active
  /\ monitors[3].active
  /\ Len(last_effect.lines) = 2
  /\ last_effect.lines[2].name = monitors[3].name
  /\ last_effect.lines[2].scale = FormatScale(configs[3].scale)

\* the monitors are those App::new built from one of the answers
MonitorsAsBuilt ==
  \E data \in RawInputs :
    monitors = [i \in 1..Len(Built[data]) |-> Built[data][i].monitor]

\* C26: a Monitor is immutable after build: over any sequence of key events
\* and external command outcomes (a successful disable command included),
\* the number and order of monitors and every monitor's name, active flag
\* and modes map stay exactly as built.
C26_MonitorsImmutable ==
  /\ [](MonitorsAsBuilt)
  /\ [][/\ Len(monitors') = Len(monitors)
        /\ \A i \in 1..Len(monitors) :
             /\ monitors'[i].name = monitors[i].name
             /\ monitors'[i].active = monitors[i].active
             /\ monitors'[i].modes = monitors[i].modes]_vars

\* C26 witness: a disable command has succeeded for the selected monitor,
\* which is still active, in a session whose configs are no longer as built.
C26_Witness ==
  /\ last_effect.verb = "disable"
  /\ last_effect.ok
  /\ monitor_list_state # None
  /\ last_effect.name = monitors[monitor_list_state + 1].name
  /\ monitors[monitor_list_state + 1].active
  /\ ~AsBuilt

\* C27: while the focused pane is Monitors, no key event changes any
\* MonitorConfig or issues any external command: the value-change keys and
\* Enter act only when the focused pane is Options; and Tab, the one step
\* that changes the focused pane, only switches it between Monitors and
\* Options.
C27_MonitorsPaneIsInert ==
  [][/\ focused_pane = "Monitors" =>
          configs' = configs /\ last_effect'.verb = "none"
     /\ focused_pane' # focused_pane =>
          /\ {focused_pane, focused_pane'} = {"Monitors", "Options"}
          /\ last_effect'.verb = "none"
          /\ UNCHANGED << monitors, configs, monitor_list_state,
                          option_list_state, status >>]_vars

\* C27 witness: the Monitors pane is focused again after the Options pane
\* changed a config, the option cursor resting on a value option, and the
\* last key issued no command.
C27_Witness ==
  /\ focused_pane = "Monitors"
  /\ option_list_state \in {0, 1, 2}
  /\ monitor_list_state # None
  /\ ~AsBuilt
  /\ last_effect.verb = "none"
  /\ status = "running"

\* C28: in every reachable state the monitor cursor is either absent or an
\* index below the number of monitors (and of configs), and it is absent
\* only when there are no monitors; the option cursor is always an index
\* below OPTION_COUNT; hence no key event indexes monitors or configs out of
\* range.
C28_CursorsInRange ==
  /\ Len(configs) = Len(monitors)
  /\ monitor_list_state = None \/ monitor_list_state \in 0..(Len(monitors) - 1)
  /\ monitor_list_state = None => Len(monitors) = 0
  /\ option_list_state \in 0..(OPTION_COUNT - 1)

\* C28 witness: both cursors have wrapped round to their last row, in a
\* session of three monitors.
C28_Witness ==
  /\ Len(monitors) = 3
  /\ monitor_list_state = 2
  /\ option_list_state = OPTION_COUNT - 1

\* C29: a value-change or Enter action changes only the config of the
\* currently selected monitor; the configs of all other monitors are
\* unchanged, with the single exception of mirror, which changes only the
\* scale of its target monitor (and nothing of the selected one).
C29_OnlySelectedConfig ==
  [][/\ Len(configs') = Len(configs)
     /\ \A i \in 1..Len(configs) :
          configs'[i] # configs[i] =>
            IF last_effect'.verb = "mirror"
            THEN /\ i # monitor_list_state + 1
                 /\ monitors[i].name = last_effect'.other
                 /\ configs'[i] = [configs[i] EXCEPT !.scale = configs'[i].scale]
            ELSE i = monitor_list_state + 1]_vars

\* C29 witness: in a session of three monitors a mirror from the first has
\* changed the scale of the third, the second config being as built.
C29_Witness ==
  /\ last_effect.verb = "mirror"
  /\ monitor_list_state = 0
  /\ \E data \in RawInputs :
       /\ Len(Built[data]) = 3
       /\ \A i \in 1..3 : monitors[i] = Built[data][i].monitor
       /\ configs[2] = Built[data][2].config
       /\ configs[3].scale # Built[data][3].config.scale
       /\ configs[3].scale = configs[1].scale
       /\ last_effect.other = monitors[3].name

\* monitor t is active and is not the selected one
ActiveOther(t) == t # monitor_list_state + 1 /\ monitors[t].active

\* C30: the target of mirror and of extend left/right is the lowest-indexed
\* monitor that is active and is not the selected monitor (the selected
\* monitor itself need not be active); when no such monitor exists, mirror
\* and extend issue no external command and change no config, no scale copy
\* included.
C30_TargetIsFirstActiveOther ==
  [][/\ last_effect'.verb \in {"mirror", "leftof", "rightof"} =>
          \E t \in 1..Len(monitors) :
            /\ ActiveOther(t)
            /\ \A k \in 1..(t - 1) : ~ActiveOther(k)
            /\ last_effect'.other = monitors[t].name
            /\ last_effect'.name = monitors[monitor_list_state + 1].name
            /\ last_effect'.verb = "mirror" =>
                 configs'[t].scale = configs[monitor_list_state + 1].scale
     /\ ( /\ focused_pane = "Options"
          /\ option_list_state \in {EXTEND_LEFT_IDX, EXTEND_RIGHT_IDX, MIRROR_IDX}
          /\ \A t \in 1..Len(monitors) : ~ActiveOther(t) )
        => configs' = configs /\ last_effect'.verb = "none"]_vars

\* C30 witness: in a session of three monitors whose second is inactive, the
\* second is selected and has been extended to the left of the first.
C30_Witness ==
  /\ Len(monitors) = 3
  /\ monitor_list_state = 1
  /\ ~monitors[2].active
  /\ monitors[1].active
  /\ monitors[3].active
  /\ last_effect.verb = "leftof"
  /\ last_effect.name = monitors[2].name
  /\ last_effect.other = monitors[1].name

\* C31 as stated: adjust_scale(decrease) never yields a scale greater than
\* the scale before the call, and adjust_scale(increase) never yields a
\* smaller one, for every reachable starting scale, the values below 50 that
\* build produces from a small raw scale included.
C31_ScaleMonotone ==
  (LastWas("adjust_scale") /\ status # "panicked") =>
    IF Last.increase THEN Now.scale >= Last.before.scale
    ELSE Now.scale <= Last.before.scale

\* C32: every monitor-list navigation step (forward or backward, the list
\* being empty or of one monitor included) resets the option cursor to index
\* 0 and leaves every config unchanged; option-list navigation never changes
\* the monitor cursor.
C32_NavigationFrame ==
  [][\A forward \in BOOLEAN :
       Navigate(forward) =>
         /\ configs' = configs
         /\ focused_pane = "Monitors" => option_list_state' = 0
         /\ focused_pane = "Options" =>
              monitor_list_state' = monitor_list_state]_vars

\* C32 witness: with a single monitor whose dpms was switched off on the
\* black-screen option, the Monitors pane is focused and the option cursor
\* is back on index 0, the monitor cursor not having moved.
C32_Witness ==
  /\ Len(monitors) = 1
  /\ ~configs[1].dpms_on
  /\ focused_pane = "Monitors"
  /\ monitor_list_state = 0
  /\ option_list_state = 0
  /\ last_effect.verb = "none"

====
